---- MODULE Spec2Model ----
(***************************************************************************)
(* Model of asg-instance-refresh/autoscaling_groups_deployment.py: the     *)
(* refresh orchestrator (AutoScalingGroup.refresh_instance), its bounded   *)
(* poller (wait_with_timeout), the blue-green protocol and the rolling     *)
(* protocol, running against a remote fleet control plane whose state      *)
(* evolves asynchronously between the orchestrator's calls.                *)
(*                                                                         *)
(* An Instance is modelled without its id: the id is opaque, it is never   *)
(* compared or branched on.  A pool is the list of instance dicts the      *)
(* control plane returns, kept in one canonical order.  Every remote call  *)
(* is one atomic step of the orchestrator; the control plane's own steps   *)
(* (Env...) interleave freely with them.                                   *)
(***************************************************************************)
EXTENDS Integers, Sequences, FiniteSets, Bags, TLC

\* ------------------------------------------------------------------ bounds
\* Largest MaxSize of an initial group snapshot.
MaxGroupSize == 2
\* Poll budget (minutes) of the orchestrator's waits explored under Spec; the
\* poller itself is explored with the source's budget of 60 under SpecPoller.
WaitBudget == 1
\* Number of refresh_instance invocations made in sequence on one group.
MaxInvocations == 2
\* Number of distinct observations a scripted probe cycles through.
ProbeViews == 3

\* ------------------------------------------------------- program constants
step_sec == 30
SourceTimeout == 60
MinHealthyPercentage == 90

\* None and Some(x): an optional value (Python's None / a value).
None == << >>
Some(x) == << x >>

\* str(n) for a natural number: decimal digits, most significant first.
Digit(d) == <<"0", "1", "2", "3", "4", "5", "6", "7", "8", "9">>[d + 1]

RECURSIVE str(_)
str(n) == IF n < 10 THEN Digit(n) ELSE str(n \div 10) \o Digit(n % 10)

\* int(a / b) for integers a and b > 0: true division, then truncation
\* toward zero.
int_div(a, b) == IF a >= 0 THEN a \div b ELSE -((-a) \div b)

\* str.lower() on the statuses an instance refresh can report.
lower(s) ==
  CASE s = "Pending" -> "pending"
    [] s = "InProgress" -> "inprogress"
    [] s = "Cancelling" -> "cancelling"
    [] s = "RollbackInProgress" -> "rollbackinprogress"
    [] s = "Successful" -> "successful"
    [] s = "Failed" -> "failed"
    [] s = "Cancelled" -> "cancelled"
    [] s = "RollbackFailed" -> "rollbackfailed"
    [] s = "RollbackSuccessful" -> "rollbacksuccessful"
    [] OTHER -> s

VARIABLES
  \* ---- the remote control plane
  asg,              \* the group: MinSize, MaxSize, DesiredCapacity, Version
  lt,               \* the launch template: DefaultVersionNumber, LatestVersionNumber
  group_instances,  \* list of instance dicts of the primary pool
  warm_instances,   \* list of instance dicts of the warm pool
  warm_pool,        \* whether a WarmPoolConfiguration exists
  instance_refresh, \* Status of the started instance refresh, None before
  suspended,        \* scaling processes suspended on the control plane
  \* ---- the orchestrator
  pc,               \* position of the orchestrator
  version,          \* refresh_instance's argument (None or Some(v))
  lt_version,       \* refresh_instance's resolved target version
  updated,          \* result of the last is_updated call, None before
  cached,           \* memoized warm_pool_created, None before first use
  init_size,        \* (init_desired_capacity, init_min_size, init_max_size)
  stack,            \* the ExitStack's registered callbacks
  ran,              \* callbacks executed by the ExitStack's exit, in order
  ip,               \* index of the next statement of the blue-green body
  exc,              \* the exception in flight, None if none
  calls,            \* mutation calls issued to the control plane, in order
  protocols,        \* protocols started, in order, over all invocations
  invocations,      \* refresh_instance invocations started
  \* ---- the poller
  w,                \* wrapper's frame: loop index c, probe and sleep counts, result
  timeout,          \* SpecPoller: the decorator's timeout
  satisfied_at      \* SpecPoller: the probe call that is first satisfied, 0 if none

vars == << asg, lt, group_instances, warm_instances, warm_pool, instance_refresh,
           suspended, pc, version, lt_version, updated, cached, init_size, stack,
           ran, ip, exc, calls, protocols, invocations, w, timeout,
           satisfied_at >>

cp_vars == << asg, lt, group_instances, warm_instances, warm_pool,
              instance_refresh, suspended >>
script_vars == << timeout, satisfied_at >>

\* ------------------------------------------------------------- data model
\* Instance(id, version, state, protected_from_scale_in), without the id.
Instance(v, st, prot) ==
  [version |-> v, state |-> st, protected_from_scale_in |-> prot]

new_instance(d) ==
  LET state == d.LifecycleState
      v == d.LaunchTemplate.Version
      protected_from_scale_in ==
        IF "ProtectedFromScaleIn" \in DOMAIN d THEN d.ProtectedFromScaleIn ELSE FALSE
  IN  Instance(v, state, protected_from_scale_in)

\* all(bs) on a list of booleans; true on the empty list.
all(bs) == \A n \in 1..Len(bs) : bs[n]

\* ------------------------------------------------------ the bounded poller
\* Mutant of Iterations: the "+ 1" of the range is dropped.
Iterations_without_last(t) == int_div(t * 60, step_sec)

\* range(int(timeout * 60 / step_sec) + 1): the number of passes of the loop.
Iterations(t) == int_div(t * 60, step_sec) + 1

NewFrame == [c |-> 0, probes |-> 0, sleeps |-> 0, ret |-> None, raised |-> FALSE]

\* Mutant of wrapper: it sleeps once more before it returns.
wrapper_sleeps_before_return(t, f, ready, instances) ==
  IF f.c >= Iterations(t)
  THEN [f EXCEPT !.raised = TRUE]
  ELSE IF ready
       THEN [f EXCEPT !.probes = @ + 1, !.sleeps = @ + 1, !.ret = Some(instances)]
       ELSE [f EXCEPT !.probes = @ + 1, !.sleeps = @ + 1, !.c = @ + 1]

\* One pass of wrapper's loop from frame f, given what the probe answers when
\* it is called in this pass: return on ready, else sleep and go on; raise
\* TimeoutError (without calling the probe) once the range is exhausted.
wrapper(t, f, ready, instances) ==
  IF f.c >= Iterations(t)
  THEN [f EXCEPT !.raised = TRUE]
  ELSE IF ready
       THEN [f EXCEPT !.probes = @ + 1, !.ret = Some(instances)]
       ELSE [f EXCEPT !.probes = @ + 1, !.sleeps = @ + 1, !.c = @ + 1]

\* ------------------------------------------------- control plane: queries
\* describe_launch_template_versions(Versions=['$Default']) and (['$Latest']).
default_version == str(lt.DefaultVersionNumber)
latest_version == str(lt.LatestVersionNumber)

launch_template_version ==
  LET v == asg.LaunchTemplate.Version
  IN  IF v = "$Default" THEN default_version
      ELSE IF v = "$Latest" THEN latest_version
      ELSE v

group_size == << asg.DesiredCapacity, asg.MinSize, asg.MaxSize >>

instances == [n \in 1..Len(group_instances) |-> new_instance(group_instances[n])]
warm_pool_instances ==
  [n \in 1..Len(warm_instances) |-> new_instance(warm_instances[n])]

\* Mutant of is_updated: the warm pool's instances are left out.
is_updated_primary_only(v) ==
  LET insts == instances
  IN  all([n \in 1..Len(insts) |-> insts[n].version = v])

is_updated(v) ==
  LET insts == instances \o warm_pool_instances
  IN  all([n \in 1..Len(insts) |-> insts[n].version = v])

\* Mutant of probe_group_size_until: the warm pool is not counted.
probe_group_size_until_primary_only(size) ==
  LET asg_instances == instances
  IN  << Len(asg_instances) = size, asg_instances >>

\* The probes of the wait methods: << ready, asg_instances >>.
probe_group_size_until(size) ==
  LET asg_instances == instances \o warm_pool_instances
  IN  << Len(asg_instances) = size, asg_instances >>

probe_instance_size_until(size) ==
  LET asg_instances == instances
  IN  << Len(asg_instances) = size, asg_instances >>

\* Mutant of probe_instances_for: the lifecycle states are not looked at.
probe_instances_for_unchecked(state) ==
  LET asg_instances == instances
  IN  << TRUE, asg_instances >>

probe_instances_for(state) ==
  LET asg_instances == instances
  IN  << all([n \in 1..Len(asg_instances) |-> asg_instances[n].state \in state]),
         asg_instances >>

probe_warm_pool_for(state) ==
  LET asg_instances == warm_pool_instances
  IN  << all([n \in 1..Len(asg_instances) |-> asg_instances[n].state \in state]),
         asg_instances >>

\* Mutant of expected_status: only a successful refresh ends the wait.
expected_status_successful_only == {"successful"}

expected_status ==
  {"successful", "failed", "cancelled", "rollbackfailed", "rollbacksuccessful"}

probe_instance_refresh_completion ==
  LET status == instance_refresh[1]
  IN  << lower(status) \in expected_status, << >> >>

\* --------------------------------------------- control plane: its own state
Versions == <<"6", "7">>
LifecycleStates == <<"Pending", "InService", "Warmed:Pending", "Warmed:Stopped">>

Dict(v, st, prot) ==
  [LifecycleState |-> st, LaunchTemplate |-> [Version |-> v],
   ProtectedFromScaleIn |-> prot]

IndexOf(x, xs) == CHOOSE n \in 1..Len(xs) : xs[n] = x

\* The canonical order of a pool's list.
Rank(d) ==
  16 * IndexOf(d.LaunchTemplate.Version, Versions)
  + 2 * IndexOf(d.LifecycleState, LifecycleStates)
  + (IF d.ProtectedFromScaleIn THEN 1 ELSE 0)

Insert(pool, d) ==
  LET k == Cardinality({n \in 1..Len(pool) : Rank(pool[n]) <= Rank(d)})
  IN  SubSeq(pool, 1, k) \o << d >> \o SubSeq(pool, k + 1, Len(pool))

Remove(pool, n) == SubSeq(pool, 1, n - 1) \o SubSeq(pool, n + 1, Len(pool))

Copies(k, d) == [n \in 1..k |-> d]

\* The version the group launches new instances with.
ResolvedVersion ==
  LET v == asg.LaunchTemplate.Version
  IN  IF v = "$Default" THEN str(lt.DefaultVersionNumber)
      ELSE IF v = "$Latest" THEN str(lt.LatestVersionNumber)
      ELSE v

\* updateGroup: the group after the request; fields not named keep their
\* value, and a DesiredCapacity not named is brought into [MinSize, MaxSize].
Requested(kwargs) ==
  LET field(name) == IF name \in DOMAIN kwargs THEN kwargs[name] ELSE asg[name]
      lo == field("MinSize")
      hi == field("MaxSize")
      want == field("DesiredCapacity")
      d == IF "DesiredCapacity" \in DOMAIN kwargs THEN want
           ELSE IF want < lo THEN lo
           ELSE IF want > hi THEN hi
           ELSE want
  IN  [MinSize |-> lo, MaxSize |-> hi, DesiredCapacity |-> d,
       LaunchTemplate |-> field("LaunchTemplate")]

\* The control plane rejects invalid size combinations.
Accepts(kwargs) ==
  LET g == Requested(kwargs)
  IN  /\ 0 <= g.MinSize
      /\ g.MinSize <= g.DesiredCapacity
      /\ g.DesiredCapacity <= g.MaxSize

\* The version number a version string names, None if it names none.
NumberOf(v) ==
  LET S == {n \in 0..99 : str(n) = v}
  IN  IF S = {} THEN None ELSE Some(CHOOSE n \in S : TRUE)

\* Whether every instance of the primary pool runs the group's version.
Replaced ==
  \A n \in 1..Len(group_instances) :
    group_instances[n].LaunchTemplate.Version = ResolvedVersion

\* The statuses an instance refresh can move to from status s.
NextStatus(s) ==
  CASE s = "Pending" -> {"InProgress"}
    [] s = "InProgress" ->
         {"Failed", "Cancelling", "RollbackInProgress"}
         \cup (IF Replaced THEN {"Successful"} ELSE {})
    [] s = "Cancelling" -> {"Cancelled"}
    [] s = "RollbackInProgress" -> {"RollbackFailed", "RollbackSuccessful"}
    [] OTHER -> {}

Total == Len(group_instances) + Len(warm_instances)

\* A new instance is launched into the warm pool while the group is below
\* its maximum size.
EnvLaunchWarm ==
  /\ warm_pool
  /\ Total < asg.MaxSize
  /\ warm_instances' =
       Insert(warm_instances, Dict(ResolvedVersion, "Warmed:Pending", FALSE))
  /\ UNCHANGED << asg, lt, group_instances, warm_pool, instance_refresh, suspended >>

EnvWarmStopped ==
  \E n \in 1..Len(warm_instances) :
    /\ warm_instances[n].LifecycleState = "Warmed:Pending"
    /\ warm_instances' =
         Insert(Remove(warm_instances, n),
                [warm_instances[n] EXCEPT !.LifecycleState = "Warmed:Stopped"])
    /\ UNCHANGED << asg, lt, group_instances, warm_pool, instance_refresh, suspended >>

\* The primary pool is below the desired capacity: a stopped warm instance
\* moves into it, carrying scale-in protection; without a warm pool a new
\* instance is launched.
EnvScaleOut ==
  /\ Len(group_instances) < asg.DesiredCapacity
  /\ IF warm_pool
     THEN \E n \in 1..Len(warm_instances) :
            /\ warm_instances[n].LifecycleState = "Warmed:Stopped"
            /\ warm_instances' = Remove(warm_instances, n)
            /\ group_instances' =
                 Insert(group_instances,
                        Dict(warm_instances[n].LaunchTemplate.Version, "Pending", TRUE))
     ELSE /\ group_instances' =
               Insert(group_instances, Dict(ResolvedVersion, "Pending", FALSE))
          /\ UNCHANGED warm_instances
  /\ UNCHANGED << asg, lt, warm_pool, instance_refresh, suspended >>

EnvInService ==
  \E n \in 1..Len(group_instances) :
    /\ group_instances[n].LifecycleState = "Pending"
    /\ group_instances' =
         Insert(Remove(group_instances, n),
                [group_instances[n] EXCEPT !.LifecycleState = "InService"])
    /\ UNCHANGED << asg, lt, warm_instances, warm_pool, instance_refresh, suspended >>

\* The primary pool is above the desired capacity: an instance without
\* scale-in protection is terminated.
EnvScaleIn ==
  /\ Len(group_instances) > asg.DesiredCapacity
  /\ \E n \in 1..Len(group_instances) :
       /\ ~group_instances[n].ProtectedFromScaleIn
       /\ group_instances' = Remove(group_instances, n)
  /\ UNCHANGED << asg, lt, warm_instances, warm_pool, instance_refresh, suspended >>

\* The group is above its maximum size: a warm instance is terminated.
EnvTerminateWarm ==
  /\ Total > asg.MaxSize
  /\ \E n \in 1..Len(warm_instances) :
       warm_instances' = Remove(warm_instances, n)
  /\ UNCHANGED << asg, lt, group_instances, warm_pool, instance_refresh, suspended >>

\* A running instance refresh replaces one instance of another version.
EnvRefreshReplace ==
  /\ instance_refresh = Some("InProgress")
  /\ \E n \in 1..Len(group_instances) :
       /\ group_instances[n].LaunchTemplate.Version # ResolvedVersion
       /\ group_instances' =
            Insert(Remove(group_instances, n),
                   [group_instances[n] EXCEPT !.LaunchTemplate.Version = ResolvedVersion])
  /\ UNCHANGED << asg, lt, warm_instances, warm_pool, instance_refresh, suspended >>

EnvRefreshStatus ==
  /\ instance_refresh # None
  /\ \E s \in NextStatus(instance_refresh[1]) : instance_refresh' = Some(s)
  /\ UNCHANGED << asg, lt, group_instances, warm_instances, warm_pool, suspended >>

Env ==
  \/ EnvLaunchWarm
  \/ EnvWarmStopped
  \/ EnvScaleOut
  \/ EnvInService
  \/ EnvScaleIn
  \/ EnvTerminateWarm
  \/ EnvRefreshReplace
  \/ EnvRefreshStatus

\* ------------------------------------------- control plane: mutation calls
\* Whether the control plane accepts a mutation call in its current state.
Accepted(call) ==
  CASE call.op = "update_auto_scaling_group" -> Accepts(call.kwargs)
    [] call.op = "modify_launch_template" ->
         NumberOf(call.kwargs.DefaultVersion) # None
    [] OTHER -> TRUE

Unprotect(pool, ids, n) ==
  IF new_instance(pool[n]) \in ids
  THEN [pool[n] EXCEPT !.ProtectedFromScaleIn = FALSE]
  ELSE pool[n]

RECURSIVE Sorted(_)
Sorted(pool) ==
  IF pool = << >> THEN << >> ELSE Insert(Sorted(Tail(pool)), Head(pool))

\* The orchestrator issues a mutation call; the control plane applies it, or
\* fails it (ok = FALSE, or a request it rejects) and stays as it is.
Execute(call, ok) ==
  /\ calls' = Append(calls, call)
  /\ IF ok /\ Accepted(call)
     THEN /\ asg' = IF call.op = "update_auto_scaling_group"
                    THEN Requested(call.kwargs) ELSE asg
          /\ lt' = IF call.op = "modify_launch_template"
                   THEN [lt EXCEPT !.DefaultVersionNumber =
                                      NumberOf(call.kwargs.DefaultVersion)[1]]
                   ELSE lt
          /\ instance_refresh' = IF call.op = "start_instance_refresh"
                                 THEN Some("Pending") ELSE instance_refresh
          /\ group_instances' =
               IF call.op = "set_instance_protection"
               THEN LET ids == {call.kwargs.InstanceIds[n] :
                                  n \in 1..Len(call.kwargs.InstanceIds)}
                    IN  Sorted([n \in 1..Len(group_instances) |->
                                  Unprotect(group_instances, ids, n)])
               ELSE group_instances
          /\ UNCHANGED << warm_instances, warm_pool, suspended >>
     ELSE UNCHANGED cp_vars

Succeeds(call, ok) == ok /\ Accepted(call)

\* ------------------------------------------------ orchestrator: functions
\* update_default_version(version): the call it issues.
update_default_version(v) ==
  [op |-> "modify_launch_template", kwargs |-> [DefaultVersion |-> v]]

\* Mutant of update_launch_template_version: with a "$Latest" reference the
\* given version is returned instead of the latest.
update_launch_template_version_returns_given(v) ==
  LET lt_ver == asg.LaunchTemplate.Version
  IN  IF lt_ver = "$Default"
      THEN [call |-> IF v # default_version
                     THEN Some(update_default_version(v)) ELSE None,
            result |-> v]
      ELSE IF lt_ver = "$Latest"
      THEN [call |-> None, result |-> v]
      ELSE [call |-> IF v # lt_ver
                     THEN Some([op |-> "update_auto_scaling_group",
                                kwargs |-> [LaunchTemplate |-> [Version |-> v]]])
                     ELSE None,
            result |-> v]

\* update_launch_template_version(version): the mutation call it issues, if
\* any, and the version it returns.
update_launch_template_version(v) ==
  LET lt_ver == asg.LaunchTemplate.Version
  IN  IF lt_ver = "$Default"
      THEN [call |-> IF v # default_version
                     THEN Some(update_default_version(v)) ELSE None,
            result |-> v]
      ELSE IF lt_ver = "$Latest"
      THEN [call |-> None, result |-> latest_version]
      ELSE [call |-> IF v # lt_ver
                     THEN Some([op |-> "update_auto_scaling_group",
                                kwargs |-> [LaunchTemplate |-> [Version |-> v]]])
                     ELSE None,
            result |-> v]

\* Mutant of SizeKey: max_size and min_size name each other's field.
SizeKey_swapped(name) ==
  CASE name = "max_size" -> "MinSize"
    [] name = "min_size" -> "MaxSize"
    [] name = "desired_capacity" -> "DesiredCapacity"

\* update_group_size(max_size, min_size, desired_capacity): args holds the
\* arguments that are not None; the call it issues, None if it returns early.
SizeKey(name) ==
  CASE name = "max_size" -> "MaxSize"
    [] name = "min_size" -> "MinSize"
    [] name = "desired_capacity" -> "DesiredCapacity"

\* Mutant of update_group_size: desired_capacity is not passed on.
update_group_size_drops_desired(args) ==
  IF \A sz \in {"max_size", "min_size", "desired_capacity"} : sz \notin DOMAIN args
  THEN None
  ELSE Some([op |-> "update_auto_scaling_group",
             kwargs |-> [k \in {SizeKey(a) : a \in DOMAIN args \ {"desired_capacity"}} |->
                           args[CHOOSE a \in DOMAIN args : SizeKey(a) = k]]])

update_group_size(args) ==
  IF \A sz \in {"max_size", "min_size", "desired_capacity"} : sz \notin DOMAIN args
  THEN None
  ELSE Some([op |-> "update_auto_scaling_group",
             kwargs |-> [k \in {SizeKey(a) : a \in DOMAIN args} |->
                           args[CHOOSE a \in DOMAIN args : SizeKey(a) = k]]])

\* Mutant of remove_instance_protection: every instance is named.
remove_instance_protection_all(insts) ==
  LET instance_ids == insts
  IN  [op |-> "set_instance_protection",
       kwargs |-> [InstanceIds |-> instance_ids, ProtectedFromScaleIn |-> FALSE]]

\* remove_instance_protection(instances): the call it issues.
remove_instance_protection(insts) ==
  LET instance_ids == SelectSeq(insts, LAMBDA i : i.protected_from_scale_in)
  IN  [op |-> "set_instance_protection",
       kwargs |-> [InstanceIds |-> instance_ids, ProtectedFromScaleIn |-> FALSE]]

start_instance_refresh ==
  [op |-> "start_instance_refresh",
   kwargs |-> [Strategy |-> "Rolling",
               Preferences |-> [MinHealthyPercentage |-> MinHealthyPercentage]]]

scaling_processes == <<"AlarmNotification", "AZRebalance", "InstanceRefresh">>

\* The statements of start_blue_green_deployment's with-block, in order, from
\* the snapshot (init_desired_capacity, init_min_size, init_max_size).
Body(init) ==
  LET D0 == init[1]
      N0 == init[2]
      X0 == init[3]
  IN  << [step |-> "1", op |-> "update_group_size", args |-> [max_size |-> 2 * X0]],
         [step |-> "1", op |-> "wait_group_size_until", args |-> 2 * X0],
         [step |-> "1", op |-> "wait_warm_pool_for", args |-> {"Warmed:Stopped"}],
         [step |-> "1.5", op |-> "suspend_processes", args |-> scaling_processes],
         [step |-> "2", op |-> "update_group_size", args |-> [max_size |-> X0 + D0]],
         [step |-> "2", op |-> "wait_group_size_until", args |-> X0 + D0],
         [step |-> "2", op |-> "wait_warm_pool_for", args |-> {"Warmed:Stopped"}],
         [step |-> "3", op |-> "update_group_size", args |-> [min_size |-> 2 * D0]],
         [step |-> "3", op |-> "wait_instance_size_until", args |-> 2 * D0],
         [step |-> "3", op |-> "wait_instances_for", args |-> {"InService"}],
         [step |-> "4", op |-> "remove_instance_protection", args |-> None],
         [step |-> "5", op |-> "update_group_size",
          args |-> [min_size |-> N0, desired_capacity |-> D0]],
         [step |-> "5", op |-> "wait_instance_size_until", args |-> D0],
         [step |-> "5", op |-> "wait_warm_pool_for", args |-> {"Warmed:Stopped"}],
         [step |-> "6", op |-> "update_group_size", args |-> [max_size |-> X0]],
         [step |-> "6", op |-> "wait_group_size_until", args |-> X0] >>

\* Mutant of RestoreCallback: twice the initial max_size is restored.
RestoreCallback_doubled(init) ==
  [fn |-> "update_group_size",
   args |-> [max_size |-> 2 * init[3], min_size |-> init[2]]]

\* Mutant of RestoreCallback: the initial desired_capacity is restored too.
RestoreCallback_with_desired(init) ==
  [fn |-> "update_group_size",
   args |-> [max_size |-> init[3], min_size |-> init[2],
             desired_capacity |-> init[1]]]

\* Mutant of RestoreCallback: only max_size is restored.
RestoreCallback_max_only(init) ==
  [fn |-> "update_group_size", args |-> [max_size |-> init[3]]]

\* The callback registered as step 0.
RestoreCallback(init) ==
  [fn |-> "update_group_size",
   args |-> [max_size |-> init[3], min_size |-> init[2]]]

ResumeCallback(processes) == [fn |-> "resume_processes", args |-> processes]

\* -------------------------------------------------- orchestrator: actions
\* main() calls refresh_instance(args.version); a later invocation in
\* sequence repeats the call with the same argument.
refresh_instance ==
  /\ pc \in {"main", "returned"}
  /\ invocations < MaxInvocations
  /\ invocations' = invocations + 1
  /\ pc' = "resolve"
  /\ lt_version' = None
  /\ updated' = None
  /\ init_size' = None
  /\ stack' = << >>
  /\ ran' = << >>
  /\ ip' = 0
  /\ UNCHANGED << cp_vars, version, cached, exc, calls, protocols, w, script_vars >>

\* lines 313-314: no version given, the group's current reference is resolved.
resolve_launch_template_version ==
  /\ pc = "resolve"
  /\ version = None
  /\ \/ /\ lt_version' = Some(launch_template_version)
        /\ pc' = "is_updated"
        /\ UNCHANGED exc
     \/ /\ exc' = Some("ControlPlaneError")
        /\ pc' = "raised"
        /\ UNCHANGED lt_version
  /\ UNCHANGED << cp_vars, version, updated, cached, init_size, stack, ran, ip,
                  calls, protocols, invocations, w, script_vars >>

\* lines 315-316: the given version is applied to the group's reference.
resolve_update_launch_template_version ==
  /\ pc = "resolve"
  /\ version # None
  /\ LET r == update_launch_template_version(version[1])
     IN  \/ /\ r.call = None
            /\ lt_version' = Some(r.result)
            /\ pc' = "is_updated"
            /\ UNCHANGED << cp_vars, calls, exc >>
         \/ /\ r.call # None
            /\ \E ok \in BOOLEAN :
                 /\ Execute(r.call[1], ok)
                 /\ IF Succeeds(r.call[1], ok)
                    THEN /\ lt_version' = Some(r.result)
                         /\ pc' = "is_updated"
                         /\ UNCHANGED exc
                    ELSE /\ exc' = Some("ControlPlaneError")
                         /\ pc' = "raised"
                         /\ UNCHANGED lt_version
         \/ /\ exc' = Some("ControlPlaneError")
            /\ pc' = "raised"
            /\ UNCHANGED << cp_vars, calls, lt_version >>
  /\ UNCHANGED << version, updated, cached, init_size, stack, ran, ip, protocols,
                  invocations, w, script_vars >>

\* Mutant of check_updated: the early return is taken when not updated.
check_updated_inverted ==
  /\ pc = "is_updated"
  /\ updated' = Some(is_updated(lt_version[1]))
  /\ pc' = IF is_updated(lt_version[1]) THEN "select" ELSE "returned"
  /\ UNCHANGED << cp_vars, version, lt_version, cached, init_size, stack, ran, ip,
                  exc, calls, protocols, invocations, w, script_vars >>

\* lines 317-322: return when the group is already updated.
check_updated ==
  /\ pc = "is_updated"
  /\ \/ /\ updated' = Some(is_updated(lt_version[1]))
        /\ pc' = IF is_updated(lt_version[1]) THEN "returned" ELSE "select"
        /\ UNCHANGED exc
     \/ /\ exc' = Some("ControlPlaneError")
        /\ pc' = "raised"
        /\ UNCHANGED updated
  /\ UNCHANGED << cp_vars, version, lt_version, cached, init_size, stack, ran, ip,
                  calls, protocols, invocations, w, script_vars >>

\* Mutant of warm_pool_created: the branches of the selection are swapped.
warm_pool_created_swapped ==
  /\ pc = "select"
  /\ cached' = IF cached = None THEN Some(warm_pool) ELSE cached
  /\ pc' = IF cached'[1] THEN "start_rolling_update"
           ELSE "start_blue_green_deployment"
  /\ UNCHANGED << cp_vars, version, lt_version, updated, init_size, stack, ran, ip,
                  exc, calls, protocols, invocations, w, script_vars >>

\* lines 148-152 and 324: the memoized warm_pool_created selects the protocol.
warm_pool_created ==
  /\ pc = "select"
  /\ \/ /\ cached' = IF cached = None THEN Some(warm_pool) ELSE cached
        /\ pc' = IF cached'[1] THEN "start_blue_green_deployment"
                 ELSE "start_rolling_update"
        /\ UNCHANGED exc
     \/ /\ cached = None
        /\ exc' = Some("ControlPlaneError")
        /\ pc' = "raised"
        /\ UNCHANGED cached
  /\ UNCHANGED << cp_vars, version, lt_version, updated, init_size, stack, ran, ip,
                  calls, protocols, invocations, w, script_vars >>

\* lines 331-341: the rolling refresh is started.
start_rolling_update ==
  /\ pc = "start_rolling_update"
  /\ protocols' = Append(protocols, "rolling")
  /\ \E ok \in BOOLEAN :
       /\ Execute(start_instance_refresh, ok)
       /\ IF Succeeds(start_instance_refresh, ok)
          THEN /\ pc' = "wait_instance_refresh_completion"
               /\ UNCHANGED exc
          ELSE /\ pc' = "raised"
               /\ exc' = Some("ControlPlaneError")
  /\ w' = NewFrame
  /\ UNCHANGED << version, lt_version, updated, cached, init_size, stack, ran, ip,
                  invocations, script_vars >>

\* lines 225-245 under the wrapper: one pass of the wait on the refresh status.
wait_instance_refresh_completion ==
  /\ pc = "wait_instance_refresh_completion"
  /\ \/ LET pr == probe_instance_refresh_completion
            f == wrapper(WaitBudget, w, pr[1], pr[2])
        IN  /\ w' = IF f.raised \/ f.ret # None THEN NewFrame ELSE f
            /\ pc' = IF f.raised THEN "raised"
                     ELSE IF f.ret # None THEN "assert" ELSE pc
            /\ exc' = IF f.raised THEN Some("TimeoutError") ELSE exc
     \/ /\ w.c < Iterations(WaitBudget)
        /\ w' = NewFrame
        /\ pc' = "raised"
        /\ exc' = Some("ControlPlaneError")
  /\ UNCHANGED << cp_vars, version, lt_version, updated, cached, init_size, stack,
                  ran, ip, calls, protocols, invocations, script_vars >>

\* lines 343-359: the snapshot is read and the restore callback registered.
start_blue_green_deployment ==
  /\ pc = "start_blue_green_deployment"
  /\ protocols' = Append(protocols, "blue_green")
  /\ \E ok \in BOOLEAN :
       IF cached # Some(TRUE)
       THEN /\ exc' = Some("AssertionError")
            /\ pc' = "raised"
            /\ UNCHANGED << init_size, stack, ip >>
       ELSE IF ok
       THEN /\ init_size' = Some(group_size)
            /\ stack' = << RestoreCallback(group_size) >>
            /\ ip' = 1
            /\ pc' = "blue_green"
            /\ UNCHANGED exc
       ELSE /\ exc' = Some("ControlPlaneError")
            /\ pc' = "raised"
            /\ UNCHANGED << init_size, stack, ip >>
  /\ w' = NewFrame
  /\ UNCHANGED << cp_vars, version, lt_version, updated, cached, ran, calls,
                  invocations, script_vars >>

\* The statement of the with-block the orchestrator is at.
Statement == Body(init_size[1])[ip]

AtStatement(op) ==
  /\ pc = "blue_green"
  /\ ip <= Len(Body(init_size[1]))
  /\ Statement.op = op

\* An exception leaves the with-block: the ExitStack unwinds.
Unwind(e) ==
  /\ exc' = Some(e)
  /\ pc' = "exit_stack"
  /\ w' = NewFrame
  /\ UNCHANGED ip

\* lines 289-308 called from the with-block (steps 1, 2, 3, 5 and 6).
bg_update_group_size ==
  /\ AtStatement("update_group_size")
  /\ LET call == update_group_size(Statement.args)
     IN  IF call = None
         THEN /\ ip' = ip + 1
              /\ UNCHANGED << cp_vars, calls, exc, pc, w >>
         ELSE \E ok \in BOOLEAN :
                /\ Execute(call[1], ok)
                /\ IF Succeeds(call[1], ok)
                   THEN /\ ip' = ip + 1
                        /\ UNCHANGED << exc, pc, w >>
                   ELSE Unwind("ControlPlaneError")
  /\ UNCHANGED << version, lt_version, updated, cached, init_size, stack, ran,
                  protocols, invocations, script_vars >>

\* Mutant of Wait: an exhausted budget is ignored and the block goes on.
Wait_timeout_ignored(pr) ==
  /\ \/ LET f == wrapper(WaitBudget, w, pr[1], pr[2])
        IN  IF f.raised \/ f.ret # None
            THEN /\ ip' = ip + 1
                 /\ w' = NewFrame
                 /\ UNCHANGED << exc, pc >>
            ELSE /\ w' = f
                 /\ UNCHANGED << exc, pc, ip >>
     \/ /\ w.c < Iterations(WaitBudget)
        /\ Unwind("ControlPlaneError")
  /\ UNCHANGED << cp_vars, version, lt_version, updated, cached, init_size, stack,
                  ran, calls, protocols, invocations, script_vars >>

\* One pass of a wait of the with-block: the wrapper around probe pr, or the
\* probe's own query failing.
Wait(pr) ==
  /\ \/ LET f == wrapper(WaitBudget, w, pr[1], pr[2])
        IN  IF f.raised
            THEN Unwind("TimeoutError")
            ELSE IF f.ret # None
            THEN /\ ip' = ip + 1
                 /\ w' = NewFrame
                 /\ UNCHANGED << exc, pc >>
            ELSE /\ w' = f
                 /\ UNCHANGED << exc, pc, ip >>
     \/ /\ w.c < Iterations(WaitBudget)
        /\ Unwind("ControlPlaneError")
  /\ UNCHANGED << cp_vars, version, lt_version, updated, cached, init_size, stack,
                  ran, calls, protocols, invocations, script_vars >>

wait_group_size_until ==
  /\ AtStatement("wait_group_size_until")
  /\ Wait(probe_group_size_until(Statement.args))

wait_instance_size_until ==
  /\ AtStatement("wait_instance_size_until")
  /\ Wait(probe_instance_size_until(Statement.args))

wait_instances_for ==
  /\ AtStatement("wait_instances_for")
  /\ Wait(probe_instances_for(Statement.args))

wait_warm_pool_for ==
  /\ AtStatement("wait_warm_pool_for")
  /\ Wait(probe_warm_pool_for(Statement.args))

\* lines 247-248 and 373-374: suspend_processes only logs; the resume callback
\* is registered.
suspend_processes ==
  /\ AtStatement("suspend_processes")
  /\ stack' = Append(stack, ResumeCallback(Statement.args))
  /\ ip' = ip + 1
  /\ UNCHANGED << cp_vars, version, lt_version, updated, cached, init_size, ran,
                  exc, pc, calls, protocols, invocations, w, script_vars >>

\* lines 253-259 and 394: step 4.
bg_remove_instance_protection ==
  /\ AtStatement("remove_instance_protection")
  /\ \E ok \in BOOLEAN :
       LET call == remove_instance_protection(instances)
       IN  /\ Execute(call, ok)
           /\ IF Succeeds(call, ok)
              THEN /\ ip' = ip + 1
                   /\ UNCHANGED << exc, pc, w >>
              ELSE Unwind("ControlPlaneError")
  /\ UNCHANGED << version, lt_version, updated, cached, init_size, stack, ran,
                  protocols, invocations, script_vars >>

\* The with-block's body ends normally.
bg_end ==
  /\ pc = "blue_green"
  /\ ip > Len(Body(init_size[1]))
  /\ pc' = "exit_stack"
  /\ UNCHANGED << cp_vars, version, lt_version, updated, cached, init_size, stack,
                  ran, ip, exc, calls, protocols, invocations, w, script_vars >>

\* Mutant of exit_stack_callback: the callback registered first runs next.
exit_stack_callback_fifo ==
  /\ pc = "exit_stack"
  /\ stack # << >>
  /\ LET cb == stack[1]
         call == IF cb.fn = "update_group_size" THEN update_group_size(cb.args)
                 ELSE None
     IN  /\ stack' = Tail(stack)
         /\ IF call = None
            THEN /\ ran' = Append(ran, [fn |-> cb.fn, args |-> cb.args, ok |-> TRUE])
                 /\ UNCHANGED << cp_vars, calls, exc >>
            ELSE \E ok \in BOOLEAN :
                   /\ Execute(call[1], ok)
                   /\ ran' = Append(ran, [fn |-> cb.fn, args |-> cb.args,
                                          ok |-> Succeeds(call[1], ok)])
                   /\ exc' = IF Succeeds(call[1], ok) THEN exc
                             ELSE Some("ControlPlaneError")
  /\ UNCHANGED << version, lt_version, updated, cached, init_size, ip, pc,
                  protocols, invocations, w, script_vars >>

\* ExitStack.__exit__: the callback registered last runs next; a callback
\* that raises replaces the exception in flight and the unwinding goes on.
exit_stack_callback ==
  /\ pc = "exit_stack"
  /\ stack # << >>
  /\ LET cb == stack[Len(stack)]
         call == IF cb.fn = "update_group_size" THEN update_group_size(cb.args)
                 ELSE None
     IN  /\ stack' = SubSeq(stack, 1, Len(stack) - 1)
         /\ IF call = None
            THEN /\ ran' = Append(ran, [fn |-> cb.fn, args |-> cb.args, ok |-> TRUE])
                 /\ UNCHANGED << cp_vars, calls, exc >>
            ELSE \E ok \in BOOLEAN :
                   /\ Execute(call[1], ok)
                   /\ ran' = Append(ran, [fn |-> cb.fn, args |-> cb.args,
                                          ok |-> Succeeds(call[1], ok)])
                   /\ exc' = IF Succeeds(call[1], ok) THEN exc
                             ELSE Some("ControlPlaneError")
  /\ UNCHANGED << version, lt_version, updated, cached, init_size, ip, pc,
                  protocols, invocations, w, script_vars >>

\* The ExitStack is unwound: the exception in flight propagates, or
\* start_blue_green_deployment returns.
exit_stack_done ==
  /\ pc = "exit_stack"
  /\ stack = << >>
  /\ pc' = IF exc = None THEN "assert" ELSE "raised"
  /\ UNCHANGED << cp_vars, version, lt_version, updated, cached, init_size, stack,
                  ran, ip, exc, calls, protocols, invocations, w, script_vars >>

\* Mutant of refresh_assert: the assertion is not made.
refresh_assert_skipped ==
  /\ pc = "assert"
  /\ pc' = "returned"
  /\ UNCHANGED << cp_vars, version, lt_version, updated, cached, init_size, stack,
                  ran, ip, exc, calls, protocols, invocations, w, script_vars >>

\* Mutant of refresh_assert: any instance at the version passes the check.
refresh_assert_any ==
  /\ pc = "assert"
  /\ LET insts == instances \o warm_pool_instances
         passes == \E n \in 1..Len(insts) : insts[n].version = lt_version[1]
     IN  /\ updated' = Some(passes)
         /\ pc' = IF passes THEN "returned" ELSE "raised"
         /\ exc' = IF passes THEN exc ELSE Some("AssertionError")
  /\ UNCHANGED << cp_vars, version, lt_version, cached, init_size, stack, ran, ip,
                  calls, protocols, invocations, w, script_vars >>

\* line 329: assert (self.is_updated(lt_version)).
refresh_assert ==
  /\ pc = "assert"
  /\ \E ok \in BOOLEAN :
       IF ~ok
       THEN /\ exc' = Some("ControlPlaneError")
            /\ pc' = "raised"
            /\ UNCHANGED updated
       ELSE /\ updated' = Some(is_updated(lt_version[1]))
            /\ pc' = IF is_updated(lt_version[1]) THEN "returned" ELSE "raised"
            /\ exc' = IF is_updated(lt_version[1]) THEN exc
                      ELSE Some("AssertionError")
  /\ UNCHANGED << cp_vars, version, lt_version, cached, init_size, stack, ran, ip,
                  calls, protocols, invocations, w, script_vars >>

\* The control plane moves on its own.
EnvStep ==
  /\ Env
  /\ UNCHANGED << pc, version, lt_version, updated, cached, init_size, stack, ran,
                  ip, exc, calls, protocols, invocations, w, script_vars >>

\* ---------------------------------------------------------- specification
Snapshots ==
  {g \in [MinSize : 0..MaxGroupSize, MaxSize : 0..MaxGroupSize,
          DesiredCapacity : 0..MaxGroupSize] :
     g.MinSize <= g.DesiredCapacity /\ g.DesiredCapacity <= g.MaxSize}

References == {"$Default", "$Latest", "6"}

Arguments == {None, Some("6"), Some("7")}

Init ==
  /\ \E g \in Snapshots, r \in References :
       asg = [MinSize |-> g.MinSize, MaxSize |-> g.MaxSize,
              DesiredCapacity |-> g.DesiredCapacity,
              LaunchTemplate |-> [Version |-> r]]
  /\ lt = [DefaultVersionNumber |-> 6, LatestVersionNumber |-> 7]
  /\ warm_pool \in BOOLEAN
  /\ \E v \in {Versions[n] : n \in 1..Len(Versions)} :
       /\ group_instances = Copies(asg.DesiredCapacity, Dict(v, "InService", FALSE))
       /\ warm_instances =
            IF warm_pool
            THEN Copies(asg.MaxSize - asg.DesiredCapacity,
                        Dict(v, "Warmed:Stopped", FALSE))
            ELSE << >>
  /\ instance_refresh = None
  /\ suspended = {}
  /\ pc = "main"
  /\ version \in Arguments
  /\ lt_version = None
  /\ updated = None
  /\ cached = None
  /\ init_size = None
  /\ stack = << >>
  /\ ran = << >>
  /\ ip = 0
  /\ exc = None
  /\ calls = << >>
  /\ protocols = << >>
  /\ invocations = 0
  /\ w = NewFrame
  /\ timeout = 0
  /\ satisfied_at = 0

Next ==
  \/ refresh_instance
  \/ resolve_launch_template_version
  \/ resolve_update_launch_template_version
  \/ check_updated
  \/ warm_pool_created
  \/ start_rolling_update
  \/ wait_instance_refresh_completion
  \/ start_blue_green_deployment
  \/ bg_update_group_size
  \/ wait_group_size_until
  \/ wait_instance_size_until
  \/ wait_instances_for
  \/ wait_warm_pool_for
  \/ suspend_processes
  \/ bg_remove_instance_protection
  \/ bg_end
  \/ exit_stack_callback
  \/ exit_stack_done
  \/ refresh_assert
  \/ EnvStep

Spec == Init /\ [][Next]_vars

\* ------------------------------------------- the poller on a scripted probe
\* The decorator's timeouts explored; every wait of the source uses 60.
PollTimeouts == {0, 1, 2, SourceTimeout}

\* The scripted probe: its call-th call is satisfied from call satisfied_at
\* on (never if that is 0), and observes a list that tells the calls apart.
ScriptReady(call) == satisfied_at # 0 /\ call >= satisfied_at
ScriptView(call) == Copies(call % ProbeViews, Instance("6", "Pending", FALSE))

\* One pass of wrapper's loop around the scripted probe.
poll ==
  /\ pc = "poll"
  /\ LET f == wrapper(timeout, w, ScriptReady(w.probes + 1), ScriptView(w.probes + 1))
     IN  /\ w' = f
         /\ pc' = IF f.raised THEN "poll_raised"
                  ELSE IF f.ret # None THEN "poll_returned" ELSE "poll"
  /\ UNCHANGED << cp_vars, version, lt_version, updated, cached, init_size, stack,
                  ran, ip, exc, calls, protocols, invocations, script_vars >>

InitPoller ==
  /\ asg = [MinSize |-> 0, MaxSize |-> 0, DesiredCapacity |-> 0,
            LaunchTemplate |-> [Version |-> "$Default"]]
  /\ lt = [DefaultVersionNumber |-> 6, LatestVersionNumber |-> 7]
  /\ warm_pool = FALSE
  /\ group_instances = << >>
  /\ warm_instances = << >>
  /\ instance_refresh = None
  /\ suspended = {}
  /\ pc = "poll"
  /\ version = None
  /\ lt_version = None
  /\ updated = None
  /\ cached = None
  /\ init_size = None
  /\ stack = << >>
  /\ ran = << >>
  /\ ip = 0
  /\ exc = None
  /\ calls = << >>
  /\ protocols = << >>
  /\ invocations = 0
  /\ w = NewFrame
  /\ timeout \in PollTimeouts
  /\ satisfied_at \in 0..(Iterations(timeout) + 1)

NextPoller == poll

SpecPoller == InitPoller /\ [][NextPoller]_vars

\* ------------------------------ the scenario D0 = 2, N0 = 1, X0 = 4
\* A group with a warm pool whose instances all run "6", refreshed to "7",
\* on a control plane that removes old-version members first (the group's
\* termination policy the blue-green steps 2 and 5 count on).
ScenarioSnapshot == [DesiredCapacity |-> 2, MinSize |-> 1, MaxSize |-> 4]

\* Whether an instance dict runs another version than the group launches.
OldVersion(d) == d.LaunchTemplate.Version # ResolvedVersion

\* Whether member n may be removed from among the candidates: an old-version
\* candidate goes before any other.
OldestFirst(pool, candidates, n) ==
  /\ n \in candidates
  /\ (OldVersion(pool[n]) \/ \A m \in candidates : ~OldVersion(pool[m]))

EnvScaleInOldestFirst ==
  /\ Len(group_instances) > asg.DesiredCapacity
  /\ \E n \in 1..Len(group_instances) :
       /\ OldestFirst(group_instances,
                      {m \in 1..Len(group_instances) :
                         ~group_instances[m].ProtectedFromScaleIn}, n)
       /\ group_instances' = Remove(group_instances, n)
  /\ UNCHANGED << asg, lt, warm_instances, warm_pool, instance_refresh, suspended >>

EnvTerminateWarmOldestFirst ==
  /\ Total > asg.MaxSize
  /\ \E n \in 1..Len(warm_instances) :
       /\ OldestFirst(warm_instances, 1..Len(warm_instances), n)
       /\ warm_instances' = Remove(warm_instances, n)
  /\ UNCHANGED << asg, lt, group_instances, warm_pool, instance_refresh, suspended >>

EnvOldestFirst ==
  \/ EnvLaunchWarm
  \/ EnvWarmStopped
  \/ EnvScaleOut
  \/ EnvInService
  \/ EnvScaleInOldestFirst
  \/ EnvTerminateWarmOldestFirst

EnvStepOldestFirst ==
  /\ EnvOldestFirst
  /\ UNCHANGED << pc, version, lt_version, updated, cached, init_size, stack, ran,
                  ip, exc, calls, protocols, invocations, w, script_vars >>

InitScenario ==
  /\ \E r \in References :
       asg = [MinSize |-> ScenarioSnapshot.MinSize,
              MaxSize |-> ScenarioSnapshot.MaxSize,
              DesiredCapacity |-> ScenarioSnapshot.DesiredCapacity,
              LaunchTemplate |-> [Version |-> r]]
  /\ lt = [DefaultVersionNumber |-> 6, LatestVersionNumber |-> 7]
  /\ warm_pool = TRUE
  /\ group_instances = Copies(asg.DesiredCapacity, Dict("6", "InService", FALSE))
  /\ warm_instances =
       Copies(asg.MaxSize - asg.DesiredCapacity, Dict("6", "Warmed:Stopped", FALSE))
  /\ instance_refresh = None
  /\ suspended = {}
  /\ pc = "main"
  /\ version = Some("7")
  /\ lt_version = None
  /\ updated = None
  /\ cached = None
  /\ init_size = None
  /\ stack = << >>
  /\ ran = << >>
  /\ ip = 0
  /\ exc = None
  /\ calls = << >>
  /\ protocols = << >>
  /\ invocations = 0
  /\ w = NewFrame
  /\ timeout = 0
  /\ satisfied_at = 0

NextScenario ==
  \/ refresh_instance
  \/ resolve_update_launch_template_version
  \/ check_updated
  \/ warm_pool_created
  \/ start_blue_green_deployment
  \/ bg_update_group_size
  \/ wait_group_size_until
  \/ wait_instance_size_until
  \/ wait_instances_for
  \/ wait_warm_pool_for
  \/ suspend_processes
  \/ bg_remove_instance_protection
  \/ bg_end
  \/ exit_stack_callback
  \/ exit_stack_done
  \/ refresh_assert
  \/ EnvStepOldestFirst

\* The control plane keeps moving while it has something to do; the
\* orchestrator's own pace is not constrained.
SpecScenario ==
  InitScenario /\ [][NextScenario]_vars /\ WF_vars(EnvStepOldestFirst)

\* ------------------------------------------------------------------ claims
\* floor(timeout * 60 / step) + 1, the poller's maximum iteration count.
MaxIterations == ((timeout * 60) \div step_sec) + 1

\* C7: if the probe first becomes satisfied on its k-th call, 1 <= k <= M, the
\* poller returns the items that k-th call observed after exactly k probe
\* invocations and exactly k - 1 sleeps, and never probes again.
C7_ReturnsOnKthCall ==
  (satisfied_at \in 1..MaxIterations) =>
    /\ w.probes <= satisfied_at
    /\ ~w.raised
    /\ pc \in {"poll", "poll_returned"}
    /\ (pc = "poll" =>
          /\ w.probes < satisfied_at
          /\ w.sleeps = w.probes
          /\ w.ret = None)
    /\ (pc = "poll_returned" =>
          /\ w.probes = satisfied_at
          /\ w.sleeps = satisfied_at - 1
          /\ w.ret = Some(ScriptView(satisfied_at))
          /\ ~ENABLED poll)

C7_Witness ==
  /\ pc = "poll_returned"
  /\ timeout = SourceTimeout
  /\ satisfied_at = 121
  /\ w.probes = 121
  /\ w.sleeps = 120

\* C8: if the probe is never satisfied, the poller ends by raising the timeout
\* error after exactly floor(timeout * 60 / step) + 1 probe invocations (121
\* for the budget of 60 and the step of 30), and never returns a value.
C8_RaisesAfterMaxIterations ==
  (satisfied_at \notin 1..MaxIterations) =>
    /\ w.ret = None
    /\ pc \in {"poll", "poll_raised"}
    /\ w.probes <= MaxIterations
    /\ (pc = "poll" => ~w.raised /\ ENABLED poll)
    /\ (pc = "poll_raised" =>
          /\ w.raised
          /\ w.probes = MaxIterations
          /\ (timeout = SourceTimeout => w.probes = 121)
          /\ ~ENABLED poll)

C8_Witness ==
  /\ pc = "poll_raised"
  /\ timeout = SourceTimeout
  /\ satisfied_at = 0
  /\ w.probes = 121

\* Whether every instance of the primary pool and of the warm pool runs v.
AllAt(v) ==
  /\ \A n \in DOMAIN group_instances : group_instances[n].LaunchTemplate.Version = v
  /\ \A n \in DOMAIN warm_instances : warm_instances[n].LaunchTemplate.Version = v

\* The group-size requests issued so far, in order.
SizeWrites ==
  LET size_calls ==
        SelectSeq(calls, LAMBDA cl : /\ cl.op = "update_auto_scaling_group"
                                      /\ "LaunchTemplate" \notin DOMAIN cl.kwargs)
  IN  [n \in 1..Len(size_calls) |-> size_calls[n].kwargs]

\* The calls that change the launch template version the group uses.
IsVersionCall(cl) ==
  \/ cl.op = "modify_launch_template"
  \/ cl.op = "update_auto_scaling_group" /\ DOMAIN cl.kwargs = {"LaunchTemplate"}

\* The snapshot (D0, N0, X0) of the running blue-green protocol.
D0 == init_size[1][1]
N0 == init_size[1][2]
X0 == init_size[1][3]

TableWrites ==
  << [MaxSize |-> 2 * X0],
     [MaxSize |-> X0 + D0],
     [MinSize |-> 2 * D0],
     [MinSize |-> N0, DesiredCapacity |-> D0],
     [MaxSize |-> X0] >>

\* The number of table rows written once the statements of a step are reached.
RowsAt(step) ==
  CASE step = "1" -> 1
    [] step = "1.5" -> 1
    [] step = "2" -> 2
    [] step = "3" -> 3
    [] step = "4" -> 3
    [] step = "5" -> 4
    [] step = "6" -> 5

\* C2: for every snapshot with N0 <= D0 <= X0 the blue-green protocol writes
\* the group sizes in the table's order and with its values (MaxSize = 2*X0,
\* MaxSize = X0+D0, MinSize = 2*D0, MinSize = N0 and DesiredCapacity = D0,
\* MaxSize = X0), each request naming only the fields of its step, and the
\* group holds the value of a step once that step has written.
C2_CapacityArithmetic ==
  pc = "blue_green" =>
    LET done == Len(SizeWrites)
    IN  /\ N0 <= D0 /\ D0 <= X0
        /\ done <= 5
        /\ SizeWrites = SubSeq(TableWrites, 1, done)
        /\ done = IF ip > 16 THEN 5
                  ELSE IF Statement.op = "update_group_size"
                  THEN RowsAt(Statement.step) - 1
                  ELSE RowsAt(Statement.step)
        /\ (done = 1 => asg.MaxSize = 2 * X0)
        /\ (done = 2 => asg.MaxSize = X0 + D0)
        /\ (done = 3 => asg.MinSize = 2 * D0 /\ asg.MaxSize = X0 + D0)
        /\ (done = 4 => asg.MinSize = N0 /\ asg.DesiredCapacity = D0)
        /\ (done = 5 => asg.MaxSize = X0 /\ asg.MinSize = N0
                        /\ asg.DesiredCapacity = D0)

C2_Witness ==
  /\ pc = "blue_green"
  /\ ip = 17
  /\ init_size = Some(<< 1, 0, 2 >>)
  /\ SizeWrites = << [MaxSize |-> 4], [MaxSize |-> 3], [MinSize |-> 2],
                     [MinSize |-> 0, DesiredCapacity |-> 1], [MaxSize |-> 2] >>

\* C3 as stated: when every instance already has the target version at entry,
\* refresh_instance returns and no mutation call of any kind has occurred,
\* whether or not a version was passed.
C3_NoMutationAtAll ==
  (invocations = 1 /\ protocols = << >> /\ updated = Some(TRUE)) =>
    /\ pc = "returned"
    /\ calls = << >>

\* C3, amended: when every instance already has the target version at entry,
\* refresh_instance returns at once and no group-size update, rolling-refresh
\* start, suspend/resume or protection change occurs; the only mutation call
\* that can have occurred is the one version change of the target resolution,
\* and none at all when no version was passed or the group references
\* "$Latest".
C3_NoProtocolMutation ==
  (invocations = 1 /\ protocols = << >> /\ updated = Some(TRUE)) =>
    /\ pc = "returned"
    /\ AllAt(lt_version[1])
    /\ stack = << >> /\ ran = << >>
    /\ Len(calls) <= 1
    /\ \A n \in DOMAIN calls : IsVersionCall(calls[n])
    /\ (version = None => calls = << >>)
    /\ (calls # << >> => lt_version = version)

C3_Witness ==
  /\ invocations = 1
  /\ pc = "returned"
  /\ protocols = << >>
  /\ updated = Some(TRUE)
  /\ version = Some("7")
  /\ Len(group_instances) = 2
  /\ calls = << [op |-> "modify_launch_template", kwargs |-> [DefaultVersion |-> "7"]] >>

\* C4: over two refresh_instance invocations in sequence with the same target
\* version at most one protocol is executed, and the second invocation is a
\* no-op: it finds the group updated at entry, issues no mutation call and
\* starts no protocol.
C4_SecondCallIsNoOp ==
  [][invocations' >= 2 =>
       /\ Len(protocols') <= 1
       /\ protocols' = protocols
       /\ calls' = calls
       /\ asg' = asg /\ lt' = lt
       /\ pc' \in {"resolve", "is_updated", "returned", "raised"}
       /\ (pc' = "raised" => exc' = Some("ControlPlaneError"))
       /\ (pc' = "returned" => updated' = Some(TRUE) /\ AllAt(lt_version[1])')]_vars

C4_Witness ==
  /\ invocations = 2
  /\ pc = "returned"
  /\ protocols = << "blue_green" >>
  /\ updated = Some(TRUE)
  /\ Len(group_instances) > 0

\* C5: refresh_instance returns normally only if the group is updated to the
\* resolved target version at the check it returns from; when the chosen
\* protocol has completed (a rolling refresh ended in any terminal status
\* included) and some instance of the primary or warm pool has another
\* version, it fails with the convergence assertion instead of returning.
C5_ReturnsOnlyConverged ==
  [][/\ (pc # "returned" /\ pc' = "returned") =>
          /\ pc \in {"is_updated", "assert"}
          /\ AllAt(lt_version[1])
     /\ (pc = "assert" /\ pc' # "assert" /\ ~AllAt(lt_version[1])) =>
          /\ pc' = "raised"
          /\ exc' \in {Some("AssertionError"), Some("ControlPlaneError")}
     /\ (pc = "assert" /\ exc' = Some("AssertionError")) => ~AllAt(lt_version[1])]_vars

C5_Witness ==
  /\ pc = "raised"
  /\ exc = Some("AssertionError")
  /\ protocols = << "rolling" >>
  /\ instance_refresh = Some("RollbackSuccessful")
  /\ ~AllAt(lt_version[1])

\* The calls only the blue-green protocol issues.
IsBlueGreenCall(cl) ==
  \/ cl.op = "set_instance_protection"
  \/ cl.op = "update_auto_scaling_group" /\ "LaunchTemplate" \notin DOMAIN cl.kwargs

\* C6: for a group that is not updated refresh_instance executes exactly one
\* protocol, blue-green if and only if the group has a warm pool and rolling
\* otherwise; the rolling path issues no group-size update, process suspension
\* or protection change and waits on the refresh's status only, and the
\* blue-green path starts no rolling refresh.
C6_OneProtocolByWarmPool ==
  /\ Len(protocols) <= 1
  /\ (pc \in {"select", "start_rolling_update", "start_blue_green_deployment"} =>
        updated = Some(FALSE) /\ protocols = << >>)
  /\ (pc = "start_rolling_update" => ~warm_pool)
  /\ (pc = "start_blue_green_deployment" => warm_pool)
  /\ (pc = "wait_instance_refresh_completion" => protocols = << "rolling" >>)
  /\ (pc \in {"blue_green", "exit_stack"} => protocols = << "blue_green" >>)
  /\ (pc = "assert" => Len(protocols) = 1)
  /\ (protocols = << "rolling" >> =>
        /\ ~warm_pool
        /\ \A n \in DOMAIN calls : ~IsBlueGreenCall(calls[n])
        /\ Cardinality({n \in DOMAIN calls : calls[n].op = "start_instance_refresh"}) = 1
        /\ stack = << >> /\ ran = << >> /\ init_size = None /\ suspended = {})
  /\ (protocols = << "blue_green" >> =>
        /\ warm_pool
        /\ instance_refresh = None
        /\ \A n \in DOMAIN calls : calls[n].op # "start_instance_refresh")

C6_Witness ==
  /\ pc = "wait_instance_refresh_completion"
  /\ w.probes = 2
  /\ ~warm_pool
  /\ instance_refresh = Some("InProgress")
  /\ updated = Some(FALSE)

\* C9: is_updated(V) is true if and only if every instance of the primary
\* pool and of the warm pool has version V; an empty membership yields true,
\* so refresh_instance on a group without instances returns without running
\* a protocol.
C9_IsUpdatedIffAllAt ==
  [][(/\ pc \in {"is_updated", "assert"}
      /\ pc' # pc
      /\ exc' # Some("ControlPlaneError")) =>
       /\ updated' = Some(AllAt(lt_version[1]))
       /\ (pc = "is_updated" /\ Total = 0 =>
             /\ updated' = Some(TRUE)
             /\ pc' = "returned"
             /\ protocols' = << >>)]_vars

C9_Witness ==
  /\ pc = "returned"
  /\ invocations = 1
  /\ Total = 0
  /\ asg.MaxSize = 0
  /\ updated = Some(TRUE)
  /\ protocols = << >>

\* The calls issued by the step being taken.
NewCalls == SubSeq(calls', Len(calls) + 1, Len(calls'))

\* C10: with a version E given, a "$Default" reference promotes E to default
\* only when it differs from the current default and the target is E; a
\* "$Latest" reference ignores E, issues no version mutation and the target is
\* the latest version; a pinned reference P is updated to E only when E differs
\* from P and the target is E.  With no version given no version mutation is
\* issued and the target is what the group references.
C10_TargetResolution ==
  [][(pc = "resolve" /\ pc' = "is_updated") =>
       LET ref == asg.LaunchTemplate.Version
           default == str(lt.DefaultVersionNumber)
           latest == str(lt.LatestVersionNumber)
       IN  IF version = None
           THEN /\ NewCalls = << >>
                /\ asg' = asg /\ lt' = lt
                /\ lt_version' = Some(CASE ref = "$Default" -> default
                                        [] ref = "$Latest" -> latest
                                        [] OTHER -> ref)
           ELSE LET E == version[1]
                IN  CASE ref = "$Default" ->
                           /\ lt_version' = Some(E)
                           /\ asg' = asg
                           /\ IF E # default
                              THEN /\ NewCalls = << [op |-> "modify_launch_template",
                                                     kwargs |-> [DefaultVersion |-> E]] >>
                                   /\ str(lt'.DefaultVersionNumber) = E
                              ELSE NewCalls = << >> /\ lt' = lt
                      [] ref = "$Latest" ->
                           /\ lt_version' = Some(latest)
                           /\ NewCalls = << >>
                           /\ asg' = asg /\ lt' = lt
                      [] OTHER ->
                           /\ lt_version' = Some(E)
                           /\ lt' = lt
                           /\ IF E # ref
                              THEN /\ NewCalls =
                                        << [op |-> "update_auto_scaling_group",
                                            kwargs |-> [LaunchTemplate |->
                                                          [Version |-> E]]] >>
                                   /\ asg' = [asg EXCEPT !.LaunchTemplate.Version = E]
                              ELSE NewCalls = << >> /\ asg' = asg]_vars

C10_Witness ==
  /\ pc = "is_updated"
  /\ invocations = 1
  /\ version = Some("7")
  /\ lt_version = Some("7")
  /\ asg.LaunchTemplate.Version = "7"
  /\ calls = << [op |-> "update_auto_scaling_group",
                 kwargs |-> [LaunchTemplate |-> [Version |-> "7"]]] >>

\* ---------------------------------------------- claims on the scenario
\* The answer the probe of the wait at the current statement would give.
ProbeReady ==
  CASE Statement.op = "wait_group_size_until" ->
         probe_group_size_until(Statement.args)[1]
    [] Statement.op = "wait_instance_size_until" ->
         probe_instance_size_until(Statement.args)[1]
    [] Statement.op = "wait_instances_for" ->
         probe_instances_for(Statement.args)[1]
    [] Statement.op = "wait_warm_pool_for" ->
         probe_warm_pool_for(Statement.args)[1]
    [] OTHER -> TRUE

\* The statements of the with-block that are waits.
WaitStatements == {2, 3, 6, 7, 9, 10, 13, 14, 16}

\* The size requests of a complete blue-green run of the scenario.
ScenarioWrites ==
  << [MaxSize |-> 8], [MaxSize |-> 6], [MinSize |-> 4],
     [MinSize |-> 1, DesiredCapacity |-> 2], [MaxSize |-> 4] >>

\* C11: in the scenario D0 = 2, N0 = 1, X0 = 4 with a warm pool, target "7"
\* and all instances at "6", the blue-green protocol is the one started; its
\* size requests are MaxSize 8, MaxSize 6, MinSize 4, MinSize 1 with
\* DesiredCapacity 2, MaxSize 4, in that order, and the group holds each
\* value once written; the condition of every wait the protocol reaches
\* eventually holds on the control plane; and when all six steps have run,
\* every primary and warm-pool instance is at "7", so that the final
\* convergence check never fails.
C11_ScenarioConverges ==
  /\ [](/\ Len(protocols) <= 1
        /\ (protocols # << >> => protocols = << "blue_green" >>)
        /\ exc # Some("AssertionError")
        /\ (init_size # None => init_size = Some(<< 2, 1, 4 >>))
        /\ (lt_version # None => lt_version = Some("7"))
        /\ (pc = "blue_green" =>
              LET done == Len(SizeWrites)
              IN  /\ SizeWrites = SubSeq(ScenarioWrites, 1, done)
                  /\ (done = 1 => asg.MaxSize = 8)
                  /\ (done = 2 => asg.MaxSize = 6)
                  /\ (done = 3 => asg.MinSize = 4 /\ asg.MaxSize = 6)
                  /\ (done = 4 => asg.MinSize = 1 /\ asg.DesiredCapacity = 2)
                  /\ (done = 5 => asg.MaxSize = 4)
                  /\ (ip > 16 => done = 5 /\ Total = 4 /\ AllAt("7")))
        /\ (pc = "assert" => AllAt("7") /\ Len(group_instances) = 2 /\ Total = 4)
        /\ (pc = "returned" => AllAt("7") /\ updated = Some(TRUE)))
  /\ \A k \in WaitStatements :
       (pc = "blue_green" /\ ip = k)
         ~> (~(pc = "blue_green" /\ ip = k) \/ ProbeReady)

C11_Witness ==
  /\ pc = "returned"
  /\ invocations = 1
  /\ protocols = << "blue_green" >>
  /\ ip = 17
  /\ exc = None
  /\ SubSeq(SizeWrites, 1, 5) = ScenarioWrites
  /\ Len(group_instances) = 2
  /\ Len(warm_instances) = 2
  /\ AllAt("7")
  /\ updated = Some(TRUE)

\* ------------------------------------------- claims on the blue-green scope
\* The group's shape (DesiredCapacity, MinSize, MaxSize).
Shape == << asg.DesiredCapacity, asg.MinSize, asg.MaxSize >>

\* C12: once all six steps of a blue-green run have completed, the group's
\* shape (DesiredCapacity, MinSize, MaxSize) is the pre-refresh snapshot
\* (D0, N0, X0), and the two rollback actions, which run on this normal exit
\* as well, leave the shape as it is.
C12_ShapeRestored ==
  [][(protocols' = << "blue_green" >> /\ ip' = 17) =>
       /\ Shape' = init_size'[1]
       /\ (pc = "exit_stack" => asg' = asg)
       /\ (pc' \in {"assert", "returned", "raised"} =>
             /\ Len(ran') = 2
             /\ ran'[1].fn = "resume_processes"
             /\ ran'[2].fn = "update_group_size")]_vars

C12_Witness ==
  /\ pc = "assert"
  /\ ip = 17
  /\ init_size = Some(<< 1, 0, 2 >>)
  /\ Shape = << 1, 0, 2 >>
  /\ Len(ran) = 2
  /\ ran[2].fn = "update_group_size" /\ ran[2].ok
  /\ calls[Len(calls)].kwargs = [MaxSize |-> 2, MinSize |-> 0]

\* C13: from the completion of step 1.5 until the blue-green scope exits, the
\* scaling processes AlarmNotification, AZRebalance and InstanceRefresh are
\* suspended on the control plane (steps 2-6 run with them suspended), and
\* they are resumed on the control plane once the scope has exited.
C13_SuspendedDuringSteps ==
  /\ (pc = "blue_green" /\ ip > 4 =>
        suspended = {scaling_processes[n] : n \in 1..Len(scaling_processes)})
  /\ (pc \in {"assert", "returned", "raised"} => suspended = {})

\* The rollback actions registered once the with-block has reached statement
\* ip, in the order of their registration.
Registered ==
  IF ip > 4
  THEN << [fn |-> "update_group_size", args |-> [max_size |-> X0, min_size |-> N0]],
          [fn |-> "resume_processes", args |-> scaling_processes] >>
  ELSE << [fn |-> "update_group_size", args |-> [max_size |-> X0, min_size |-> N0]] >>

Reverse(xs) == [n \in 1..Len(xs) |-> xs[Len(xs) + 1 - n]]

\* Whether the callbacks xs are the callbacks ys: the same functions in the
\* same order, each with the same arguments.
SameCallbacks(xs, ys) ==
  /\ Len(xs) = Len(ys)
  /\ \A n \in 1..Len(xs) :
       /\ xs[n].fn = ys[n].fn
       /\ (xs[n].fn = "resume_processes" => xs[n].args = ys[n].args)
       /\ (xs[n].fn = "update_group_size" =>
             /\ DOMAIN xs[n].args = DOMAIN ys[n].args
             /\ \A k \in DOMAIN xs[n].args : xs[n].args[k] = ys[n].args[k])

\* The rollback actions executed so far, in the order of their execution.
Executed == [n \in 1..Len(ran) |-> [fn |-> ran[n].fn, args |-> ran[n].args]]

\* C14: the rollback actions registered so far in the blue-green scope are
\* each executed exactly once and in the reverse order of their registration
\* (resume-processes before restore-min/max) when the scope exits, on normal
\* completion and on a raised failure alike; none is executed before the
\* exit, and the resume action, not yet registered when step 1 fails, is then
\* not executed.
C14_RollbackOrder ==
  init_size # None =>
    /\ (pc = "blue_green" => ran = << >> /\ SameCallbacks(stack, Registered))
    /\ (pc = "exit_stack" =>
          SameCallbacks(Executed \o Reverse(stack), Reverse(Registered)))
    /\ (pc \in {"assert", "returned", "raised"} =>
          /\ stack = << >>
          /\ SameCallbacks(Executed, Reverse(Registered)))

C14_Witness ==
  /\ pc = "exit_stack"
  /\ ip = 17
  /\ exc = None
  /\ Len(ran) = 1
  /\ ran[1].fn = "resume_processes"
  /\ Len(stack) = 1
  /\ stack[1].fn = "update_group_size"

\* A wait of the with-block whose budget is exhausted takes its next step.
TimesOut ==
  /\ pc = "blue_green"
  /\ ip \in WaitStatements
  /\ w.c >= Iterations(WaitBudget)
  /\ << pc, ip, w >>' # << pc, ip, w >>

\* What every step does once a wait of the with-block has timed out, up to
\* the exception that ends up in flight: the timeout unwinds the scope from
\* the statement it was raised at and issues nothing; from then on the call
\* only unwinds and raises, issues no request but the restore action's,
\* evaluates no convergence check and takes no pass of any wait.
TimeoutIsFatal ==
  /\ (TimesOut =>
        /\ exc' = Some("TimeoutError")
        /\ pc' = "exit_stack"
        /\ ip' = ip
        /\ calls' = calls /\ stack' = stack /\ ran' = ran)
  /\ ((pc \in {"exit_stack", "raised"} /\ exc # None) =>
        /\ pc' \in {"exit_stack", "raised"}
        /\ exc' # None
        /\ ip' = ip /\ w' = w
        /\ updated' = updated /\ invocations' = invocations
        /\ (pc = "raised" => pc' = "raised" /\ calls' = calls /\ exc' = exc)
        /\ (pc' = "raised" /\ init_size # None => stack' = << >>)
        /\ \/ calls' = calls
           \/ /\ stack # << >> /\ stack' = SubSeq(stack, 1, Len(stack) - 1)
              /\ NewCalls = << [op |-> "update_auto_scaling_group",
                                kwargs |-> [MaxSize |-> X0, MinSize |-> N0]] >>)

\* C15 as stated: when a wait inside the blue-green protocol times out at step
\* i, no mutation of a later step is issued, the rollback actions run, and the
\* timeout is the error that propagates out of refresh_instance; the call
\* never returns normally, the convergence check is not evaluated, and no wait
\* or control-plane call is retried.
C15_TimeoutPropagates ==
  [][/\ TimeoutIsFatal
     /\ (exc = Some("TimeoutError") => exc' = Some("TimeoutError"))]_vars

\* C15, amended: as stated, except for the error that propagates: it is the
\* timeout unless the restore action fails while the scope unwinds, and then
\* it is that control-plane error, raised in place of the timeout.
C15_TimeoutIsFatal ==
  [][/\ TimeoutIsFatal
     /\ (exc = Some("TimeoutError") =>
           \/ exc' = Some("TimeoutError")
           \/ /\ exc' = Some("ControlPlaneError")
              /\ pc = "exit_stack"
              /\ Len(ran') = Len(ran) + 1
              /\ ran'[Len(ran')].fn = "update_group_size"
              /\ ~ran'[Len(ran')].ok)]_vars

C15_Witness ==
  /\ pc = "raised"
  /\ exc = Some("TimeoutError")
  /\ ip = 13
  /\ init_size = Some(<< 1, 0, 2 >>)
  /\ Len(ran) = 2
  /\ updated = Some(FALSE)
  /\ Len(SizeWrites) = 5
  /\ SizeWrites[5] = [MaxSize |-> 2, MinSize |-> 0]

\* Whether every member of a pool is in lifecycle state st.
AllIn(pool, st) == \A n \in 1..Len(pool) : pool[n].LifecycleState = st

\* The condition on the control plane's state that the wait at statement k
\* of the with-block waits for.
WaitCondition(k) ==
  CASE k = 2 -> Total = 2 * X0
    [] k = 3 -> AllIn(warm_instances, "Warmed:Stopped")
    [] k = 6 -> Total = X0 + D0
    [] k = 7 -> AllIn(warm_instances, "Warmed:Stopped")
    [] k = 9 -> Len(group_instances) = 2 * D0
    [] k = 10 -> AllIn(group_instances, "InService")
    [] k = 13 -> Len(group_instances) = D0
    [] k = 14 -> AllIn(warm_instances, "Warmed:Stopped")
    [] k = 16 -> Total = X0

\* The statements of the with-block that issue a size request, and the
\* request of each.
SizeStatements == {1, 5, 8, 12, 15}

SizeAt(k) ==
  CASE k = 1 -> [MaxSize |-> 2 * X0]
    [] k = 5 -> [MaxSize |-> X0 + D0]
    [] k = 8 -> [MinSize |-> 2 * D0]
    [] k = 12 -> [MinSize |-> N0, DesiredCapacity |-> D0]
    [] k = 15 -> [MaxSize |-> X0]

\* C16: in the blue-green protocol the statements run one after the other;
\* a wait is passed only in a state where its condition is observed to hold;
\* and each mutation is issued at its own statement only, hence after all
\* waits of the preceding step were observed satisfied: MaxSize = X0+D0 after
\* total = 2*X0 and the warm pool warmed-stopped; MinSize = 2*D0 after total =
\* X0+D0 and the warm pool warmed-stopped; the protection clearing and
\* MinSize = N0 / DesiredCapacity = D0 after primary size = 2*D0 and every
\* primary instance in-service; MaxSize = X0 after primary size = D0 and the
\* warm pool warmed-stopped; normal completion after total = X0.
C16_MutationsAfterWaits ==
  [][pc = "blue_green" =>
       /\ ip' \in {ip, ip + 1}
       /\ (ip' = ip + 1 /\ ip \in WaitStatements =>
             WaitCondition(ip) /\ calls' = calls)
       /\ (ip \in WaitStatements => calls' = calls)
       /\ (calls' # calls =>
             /\ Len(NewCalls) = 1
             /\ ip \in SizeStatements \cup {11}
             /\ (ip = 11 => NewCalls[1].op = "set_instance_protection")
             /\ (ip \in SizeStatements =>
                   NewCalls[1] = [op |-> "update_auto_scaling_group",
                                  kwargs |-> SizeAt(ip)]))
       /\ (ip' = ip + 1 /\ ip \in SizeStatements \cup {11} => calls' # calls)
       /\ (pc' # "blue_green" =>
             /\ pc' = "exit_stack"
             /\ (exc' = None <=> ip = 17))]_vars

C16_Witness ==
  /\ pc = "blue_green"
  /\ ip = 12
  /\ init_size = Some(<< 1, 1, 2 >>)
  /\ calls[Len(calls)].op = "set_instance_protection"
  /\ Len(calls[Len(calls)].kwargs.InstanceIds) = 1
  /\ Len(group_instances) = 2
  /\ AllIn(group_instances, "InService")

\* The views of the primary pool's members that carry scale-in protection.
ProtectedPrimary ==
  LET prot == SelectSeq(group_instances, LAMBDA d : d.ProtectedFromScaleIn)
  IN  [n \in 1..Len(prot) |->
         [version |-> prot[n].LaunchTemplate.Version,
          state |-> prot[n].LifecycleState,
          protected_from_scale_in |-> TRUE]]

\* A step of the orchestrator (the control plane's own steps leave all of
\* these unchanged).
OrchestratorStep ==
  << pc, ip, w, calls, stack, ran, invocations, updated, lt_version, cached,
     init_size, exc >>' #
  << pc, ip, w, calls, stack, ran, invocations, updated, lt_version, cached,
     init_size, exc >>

ProtectionCalls(cs) == {n \in 1..Len(cs) : cs[n].op = "set_instance_protection"}

\* C17: the orchestrator only clears scale-in protection: every protection
\* request carries the flag false; there is one, issued at step 4, naming
\* exactly the primary-pool instances that are protected at that moment (no
\* unprotected one, none of the warm pool), after which no primary instance
\* is protected; no other step of the orchestrator changes an instance.
C17_ProtectionOnlyCleared ==
  [][/\ \A n \in ProtectionCalls(calls') :
          calls'[n].kwargs.ProtectedFromScaleIn = FALSE
     /\ Cardinality(ProtectionCalls(calls')) <= 1
     /\ (ProtectionCalls(calls') # ProtectionCalls(calls) =>
           LET ids == NewCalls[1].kwargs.InstanceIds
           IN  /\ pc = "blue_green" /\ ip = 11
               /\ Len(NewCalls) = 1
               /\ ids = ProtectedPrimary
               /\ \A n \in 1..Len(ids) :
                    /\ ids[n].protected_from_scale_in
                    /\ ids[n].state \notin {"Warmed:Pending", "Warmed:Stopped"}
               /\ warm_instances' = warm_instances
               /\ Len(group_instances') = Len(group_instances)
               /\ (ip' = 12 =>
                     \A n \in 1..Len(group_instances') :
                       ~group_instances'[n].ProtectedFromScaleIn))
     /\ (OrchestratorStep /\ ProtectionCalls(calls') = ProtectionCalls(calls) =>
           /\ group_instances' = group_instances
           /\ warm_instances' = warm_instances)]_vars

C17_Witness ==
  /\ pc = "blue_green"
  /\ ip = 12
  /\ init_size = Some(<< 1, 0, 2 >>)
  /\ calls[Len(calls)] =
       [op |-> "set_instance_protection",
        kwargs |-> [InstanceIds |-> << Instance("7", "InService", TRUE) >>,
                    ProtectedFromScaleIn |-> FALSE]]
  /\ Len(group_instances) = 2
  /\ \A n \in 1..Len(group_instances) : ~group_instances[n].ProtectedFromScaleIn
  /\ Len(warm_instances) = 1

\* ------------------------------------------ claims on the rolling protocol
\* The statuses of a rolling refresh that end the wait.
TerminalStatuses ==
  {"Successful", "Failed", "Cancelled", "RollbackFailed", "RollbackSuccessful"}

RefreshCalls(cs) == {n \in 1..Len(cs) : cs[n].op = "start_instance_refresh"}

\* C18: the rolling protocol starts exactly one rolling refresh, with
\* MinHealthyPercentage 90; a pass of its wait that observes the status in
\* {Successful, Failed, Cancelled, RollbackFailed, RollbackSuccessful} returns
\* at once and without an error, whichever of them it is, so that
\* start_rolling_update returns and the convergence check comes next; a pass
\* that observes another status sleeps and polls again, until the budget is
\* exhausted.
C18_RollingProtocol ==
  [][/\ \A n \in RefreshCalls(calls') :
          /\ calls'[n].kwargs.Preferences.MinHealthyPercentage = 90
          /\ calls'[n].kwargs.Strategy = "Rolling"
     /\ (pc = "start_rolling_update" /\ pc' # pc =>
           /\ RefreshCalls(calls) = {}
           /\ Cardinality(RefreshCalls(calls')) = 1)
     /\ (pc = "wait_instance_refresh_completion" =>
           /\ Cardinality(RefreshCalls(calls')) = 1
           /\ instance_refresh # None
           /\ (OrchestratorStep /\ exc' # Some("ControlPlaneError") =>
                 IF w.c >= Iterations(WaitBudget)
                 THEN pc' = "raised" /\ exc' = Some("TimeoutError")
                 ELSE IF instance_refresh[1] \in TerminalStatuses
                 THEN pc' = "assert" /\ exc' = None
                 ELSE /\ pc' = pc /\ exc' = None
                      /\ w'.probes = w.probes + 1
                      /\ w'.sleeps = w.sleeps + 1))]_vars

C18_Witness ==
  /\ pc = "assert"
  /\ protocols = << "rolling" >>
  /\ instance_refresh = Some("Failed")
  /\ exc = None
  /\ Cardinality(RefreshCalls(calls)) = 1
  /\ Len(group_instances) = 2

\* ------------------------------------------- claims on the group's sizes
\* d brought into [lo, hi].
Clamp(d, lo, hi) == IF d < lo THEN lo ELSE IF d > hi THEN hi ELSE d

\* C19: the rollback action of the blue-green scope requests MinSize and
\* MaxSize only, never DesiredCapacity; the one request of the orchestrator
\* that names DesiredCapacity is step 5's; so after a failure before step 5
\* the DesiredCapacity is the one the control plane holds at that time, the
\* restore's MinSize and MaxSize being applied against it (the control plane
\* brings it into [N0, X0], it is not set back to D0).
C19_DesiredCapacityFrame ==
  [][/\ (NewCalls # << >> /\ "DesiredCapacity" \in DOMAIN NewCalls[1].kwargs =>
           /\ pc = "blue_green" /\ ip = 12
           /\ NewCalls = << [op |-> "update_auto_scaling_group",
                             kwargs |-> [MinSize |-> N0, DesiredCapacity |-> D0]] >>)
     /\ (pc = "exit_stack" /\ calls' # calls =>
           /\ NewCalls = << [op |-> "update_auto_scaling_group",
                             kwargs |-> [MaxSize |-> X0, MinSize |-> N0]] >>
           /\ IF ran'[Len(ran')].ok
              THEN asg'.DesiredCapacity = Clamp(asg.DesiredCapacity, N0, X0)
              ELSE asg' = asg)
     /\ (OrchestratorStep /\ asg'.DesiredCapacity # asg.DesiredCapacity =>
           \/ pc = "blue_green" /\ ip = 12 /\ asg'.DesiredCapacity = D0
           \/ /\ "DesiredCapacity" \notin DOMAIN NewCalls[1].kwargs
              /\ asg'.DesiredCapacity =
                   Clamp(asg.DesiredCapacity, asg'.MinSize, asg'.MaxSize))]_vars

C19_Witness ==
  /\ pc = "raised"
  /\ exc = Some("TimeoutError")
  /\ ip = 10
  /\ init_size = Some(<< 1, 0, 2 >>)
  /\ Len(ran) = 2
  /\ ran[2].fn = "update_group_size" /\ ran[2].ok
  /\ calls[Len(calls)].kwargs = [MaxSize |-> 2, MinSize |-> 0]
  /\ Shape = << 2, 0, 2 >>

\* The value a size request gives to a field: the one it names, or else the
\* one the group has.
Named(kwargs, field) ==
  IF field \in DOMAIN kwargs THEN kwargs[field] ELSE asg[field]

\* C20: for every snapshot with 0 <= N0 <= D0 <= X0, the orchestrator being
\* the only writer, every (MinSize, MaxSize) pair the orchestrator requests
\* during the blue-green protocol has MinSize <= MaxSize, and so has the
\* group in every state: after step 3 (2*D0 <= X0+D0) and after the rollback
\* restore included, on the success path and on every failure path.
C20_MinAtMostMax ==
  [][/\ asg.MinSize <= asg.MaxSize
     /\ asg'.MinSize <= asg'.MaxSize
     /\ (init_size # None => 0 <= N0 /\ N0 <= D0 /\ D0 <= X0)
     /\ (NewCalls # << >> /\ NewCalls[1].op = "update_auto_scaling_group" =>
           LET kwargs == NewCalls[1].kwargs
               lo == Named(kwargs, "MinSize")
               hi == Named(kwargs, "MaxSize")
           IN  /\ 0 <= lo /\ lo <= hi
               /\ (pc = "blue_green" /\ ip = 8 =>
                     lo = 2 * D0 /\ hi = X0 + D0)
               /\ (pc = "exit_stack" => lo = N0 /\ hi = X0)
               /\ (asg' # asg => asg'.MinSize = lo /\ asg'.MaxSize = hi))]_vars

C20_Witness ==
  /\ pc = "blue_green"
  /\ ip = 9
  /\ init_size = Some(<< 2, 0, 2 >>)
  /\ asg.MinSize = 4
  /\ asg.MaxSize = 4
  /\ SizeWrites[3] = [MinSize |-> 4]

====
